---- MODULE Spec2Model ----
(***************************************************************************)
(* paramguard: the archive subsystem (paramguard-core/src/archive).        *)
(*                                                                         *)
(* ArchiveService over ArchiveDb: one SQLite table archived_files, the     *)
(* file system the service reads from and restores to, and the wall clock  *)
(* that every retention decision reads.                                    *)
(*                                                                         *)
(* Time is counted in ticks, TicksPerSec ticks to the second, so that the  *)
(* difference between chrono's sub-second arithmetic (can_delete) and      *)
(* SQLite's whole-second strftime('%s') arithmetic (cleanup_expired,       *)
(* get_statistics) is part of the model.                                   *)
(***************************************************************************)
EXTENDS Integers, Sequences, FiniteSets, TLC

VARIABLES
    db,      \* the rows of table archived_files (a set of records)
    fs,      \* the file system: path -> bytes, or NoFile
    now,     \* the wall clock, in ticks
    result,  \* what the ArchiveService call that has just returned gave back
    cleanups, \* the counts the cleanup calls just made in a row returned
    issued,  \* the highest id a record has held so far (0: none yet)
    configs, \* the ConfigFiles a ConfigManager manages (one to a name)
    screen   \* the ArchiveScreen of the terminal UI: its list, filter and selection

vars == <<db, fs, now, result, cleanups, issued, configs, screen>>

----------------------------------------------------------------------------
(* Bounds *)

TicksPerSec == 2      \* clock resolution of the model (ticks per second)
MaxDays == 2          \* the clock runs up to MaxDays days (and a little more)
MaxRetentionDays == 1 \* update_retention is called with 0..MaxRetentionDays days
MaxCleanups == 2      \* cleanup is called up to MaxCleanups times in a row

(* retention_days * 86400: days to seconds *)
SecondsPerDay == 86400

DayTicks == SecondsPerDay * TicksPerSec

----------------------------------------------------------------------------
(* Strings are sequences of one-character strings, so that LIKE can look   *)
(* inside them.                                                            *)

NameDb    == <<"d","b","-","c","o","n","f","i","g">>
NameApp   == <<"a","p","p","-","c","o","n","f","i","g">>
NameNotes == <<"n","o","t","e","s">>

PathDb    == <<"/","e","t","c","/","d","b",".","j","s","o","n">>
PathApp   == <<"/","e","t","c","/","a","p","p",".","t","o","m","l">>
PathNotes == <<"/","h","o","m","e","/","n","o","t","e","s">>
PathOut   == <<"/","t","m","p","/","o","u","t">>
PathGone  == <<"/","n","o","n","e">>

Names == {NameDb, NameApp, NameNotes}
Paths == {PathDb, PathApp, PathNotes, PathOut, PathGone}

(* The directories of the file system, and its root.                        *)
Root    == <<"/">>
DirEtc  == <<"/","e","t","c">>
DirTmp  == <<"/","t","m","p">>
DirHome == <<"/","h","o","m","e">>

ReasonDefault == <<"N","o"," ","r","e","a","s","o","n"," ","p","r","o","v","i","d","e","d">>
ReasonOld     == <<"O","l","d"," ","C","o","n","f","i","g">>

(* A path that names nothing holds NoFile and one that names a directory    *)
(* holds IsDir; neither is a sequence of bytes.  None is an absent text or  *)
(* result; an absent number is <<>> and a present one <<n>>.                *)
NoFile == <<-1>>
IsDir == <<-2>>
None == <<"None">>
Some(n) == <<n>>
NoNumber == <<>>

----------------------------------------------------------------------------
(* DateTime<Utc> <-> the TEXT column archive_date.                          *)
(* The text of an instant is modelled by its whole seconds and its          *)
(* fraction: "1970-01-01T00:00:01.500+00:00" is [sec |-> 1, frac |-> 1]     *)
(* with two ticks to the second.                                            *)

ToRfc3339(t) == [sec |-> t \div TicksPerSec, frac |-> t % TicksPerSec]

ParseFromRfc3339(s) == s.sec * TicksPerSec + s.frac

(* strftime('%s', x): the whole seconds of a date text; the fraction is dropped *)
StrftimeS(s) == s.sec

(* strftime('%s', 'now') *)
StrftimeNow(t) == t \div TicksPerSec

(* Text comparison of two archive_date values (ORDER BY archive_date):      *)
(* the digits of the seconds come first, the fraction after them.           *)
TextLess(a, b) == a.sec < b.sec \/ (a.sec = b.sec /\ a.frac < b.frac)

----------------------------------------------------------------------------
(* Sha256 over the content, rendered as hex: a digest of the bytes.         *)

RECURSIVE Digest(_)
Digest(content) ==
    IF content = <<>> THEN 7
    ELSE (31 * Digest(Tail(content)) + Head(content) + 1) % 65536

Sha256Hex(content) == <<"sha256", Digest(content)>>

----------------------------------------------------------------------------
(* The schema, and the columns each statement names.  A statement that      *)
(* names a column the table does not have fails when it is prepared.        *)

TableColumns ==
    {"id", "name", "original_path", "format", "content_hash", "file_content",
     "archive_date", "retention_period", "reason", "metadata"}

InsertColumns ==
    {"name", "origina_path", "format", "content_hash", "file_content",
     "archive_date", "retention_period", "reason", "metadata"}

RestoreColumns ==
    {"id", "name", "original_path", "format", "content_hash", "file_content",
     "archive_date", "retention_period", "reason", "metadata"}

ListColumns ==
    {"id", "name", "origina_path", "format", "content_hash", "archive_date",
     "retention_period", "reaason", "metadata"}

CanDeleteColumns == {"archive_date", "retention_period", "id"}

DeleteColumns == {"id"}

CleanupColumns == {"archive_date", "retention_period"}

SearchColumns ==
    {"id", "name", "original_path", "format", "content_hash", "archive_date",
     "retention_period", "reason", "metadata"}

InfoColumns ==
    {"id", "name", "original_path", "format", "content_hash", "archive_date",
     "retention_period", "reason", "metadata"}

UpdateColumns == {"retention_period", "id"}

StatsColumns == {"metadata", "archive_date", "tetention_period", "retention_period"}

Prepares(columns) == columns \subseteq TableColumns

----------------------------------------------------------------------------
(* Path::extension and the format tag of store.                             *)

LastIndex(s, c) ==
    LET hits == {i \in 1..Len(s) : s[i] = c}
    IN  IF hits = {} THEN 0 ELSE CHOOSE i \in hits : \A j \in hits : j <= i

Extension(path) ==
    LET slash == LastIndex(path, "/")
        dot   == LastIndex(path, ".")
    IN  IF dot > slash + 1 THEN SubSeq(path, dot + 1, Len(path)) ELSE None

FormatOf(path) ==
    IF Extension(path) = None THEN <<"u","n","k","n","o","w","n">> ELSE Extension(path)

(* The metadata document store writes: size, created, modified.             *)
Metadata(content, created, modified) ==
    [size |-> Len(content), created |-> created, modified |-> modified]

----------------------------------------------------------------------------
(* Rows.  A row of archived_files, as INSERT writes it.                      *)

NewRow(id, name, path, content, format, retention_days, reason, metadata, t) ==
    [id               |-> id,
     name             |-> name,
     original_path    |-> path,
     format           |-> format,
     content_hash     |-> Sha256Hex(content),
     file_content     |-> content,
     archive_date     |-> ToRfc3339(t),
     retention_period |-> retention_days * SecondsPerDay,
     reason           |-> reason,
     metadata         |-> metadata]

(* ArchivedFile: what a SELECT hands back (every column but the payload).   *)
ArchivedFile(row) ==
    [id               |-> row.id,
     name             |-> row.name,
     original_path    |-> row.original_path,
     format           |-> row.format,
     content_hash     |-> row.content_hash,
     archive_date     |-> ParseFromRfc3339(row.archive_date),
     retention_period |-> row.retention_period,
     reason           |-> row.reason,
     metadata         |-> row.metadata]

(* The store file a service is opened on may already hold rows (the table   *)
(* is created only IF NOT EXISTS).  These are the rows such a file holds    *)
(* here; any subset of them satisfies the schema (id is the primary key,    *)
(* (name, archive_date) is unique).                                         *)
ExistingRows ==
    {NewRow(1, NameDb, PathDb, <<1, 2>>, FormatOf(PathDb), 1, ReasonOld,
            Metadata(<<1, 2>>, 0, 0), 0),
     NewRow(2, NameApp, PathApp, <<>>, FormatOf(PathApp), 1, ReasonDefault,
            Metadata(<<>>, 0, 0), 1),
     NewRow(3, NameNotes, PathNotes, <<3>>, FormatOf(PathNotes), 0, ReasonDefault,
            Metadata(<<3>>, 0, 0), 0)}

Ids == 1..4

SchemaOk(rows) ==
    /\ \A r, q \in rows : r.id = q.id => r = q
    /\ \A r, q \in rows : (r.name = q.name /\ r.archive_date = q.archive_date) => r = q

RowsById(rows, id) == {r \in rows : r.id = id}

(* INTEGER PRIMARY KEY without AUTOINCREMENT: the next rowid is one more    *)
(* than the largest rowid in the table, 1 in an empty table.                *)
NextRowid(rows) ==
    IF rows = {} THEN 1
    ELSE (CHOOSE r \in rows : \A q \in rows : q.id <= r.id).id + 1

----------------------------------------------------------------------------
(* The instants the clock visits: the first ticks, and around each whole    *)
(* day (the retention periods are whole days).                              *)

Instants ==
    (1..TicksPerSec)
    \cup {d * DayTicks + k : d \in 1..MaxDays, k \in (-1)..TicksPerSec}

(* PathBuf::join: an absolute path joined to a directory is that path.      *)
Join(dir, name) ==
    IF name # <<>> /\ name[1] = "/" THEN name
    ELSE IF dir[Len(dir)] = "/" THEN dir \o name
    ELSE dir \o <<"/">> \o name

Dirs == {DirTmp, DirEtc, DirHome}

(* Every path the file system is asked about.                               *)
FsPaths == Paths \cup Dirs \cup {Join(DirTmp, n) : n \in Names}

(* the last instant the clock visits *)
LastInstant == MaxDays * DayTicks + TicksPerSec

Res(op, arg, status, value) ==
    [op |-> op, arg |-> arg, status |-> status, value |-> value]

(* No call has just returned: the service was opened, or the clock moved on. *)
Idle == Res("none", None, "Ok", None)

(* ArchiveScreen::new: no archives loaded, an empty filter, no message and   *)
(* nothing selected.  selected_index counts from 0.                         *)
NewScreen ==
    [archives       |-> <<>>,
     filter         |-> <<>>,
     message        |-> <<>>,
     selected_index |-> NoNumber,
     panicked       |-> FALSE]

Init ==
    /\ db \in SUBSET ExistingRows
    /\ fs = [p \in FsPaths |->
                IF p = PathDb THEN <<9>>
                ELSE IF p = PathApp THEN <<>>
                ELSE IF p = DirEtc THEN IsDir
                ELSE NoFile]
    /\ now = 1
    /\ result = Idle
    /\ cleanups = <<>>
    /\ issued = NextRowid(db) - 1
    /\ configs = {}
    /\ screen = NewScreen

(* Utc::now() moves on between calls. *)
Advance ==
    /\ \E t \in Instants : t > now /\ now' = t
    /\ result' = Idle
    /\ cleanups' = <<>>
    /\ UNCHANGED <<screen, configs, db, fs, issued>>

----------------------------------------------------------------------------
(* archive_file on a table without UNIQUE(name, archive_date)               *)
ArchiveFileNoUnique(rows, name, path, content, format, retention_days, reason, metadata, t) ==
    [ok   |-> TRUE,
     rows |-> rows \cup {NewRow(NextRowid(rows), name, path, content, format,
                                retention_days, reason, metadata, t)},
     id   |-> NextRowid(rows)]

(* ArchiveDb::archive_file.  Returns what the INSERT did.                    *)

ArchiveFile(rows, name, path, content, format, retention_days, reason, metadata, t) ==
    IF ~Prepares(InsertColumns)
    THEN [ok |-> FALSE, rows |-> rows, id |-> 0]
    ELSE IF \E r \in rows : r.name = name /\ r.archive_date = ToRfc3339(t)
    THEN [ok |-> FALSE, rows |-> rows, id |-> 0]
    ELSE [ok   |-> TRUE,
          rows |-> rows \cup {NewRow(NextRowid(rows), name, path, content, format,
                                     retention_days, reason, metadata, t)},
          id   |-> NextRowid(rows)]

(* store that takes an unreadable file for an empty one *)
StoreSwallow(name, path, retention_days, reason) ==
    LET content  == IF fs[path] = NoFile \/ fs[path] = IsDir THEN <<>> ELSE fs[path]
        metadata == Metadata(content, StrftimeNow(now), StrftimeNow(now))
        ins == ArchiveFile(db, name, path, content, FormatOf(path), retention_days,
                           IF reason = None THEN ReasonDefault ELSE reason,
                           metadata, now)
    IN  /\ db' = ins.rows
        /\ result' = IF ins.ok
                     THEN Res("store", [name |-> name, path |-> path], "Ok", ins.id)
                     ELSE Res("store", [name |-> name, path |-> path], "DbError", None)
        /\ issued' = IF ins.ok /\ ins.id > issued THEN ins.id ELSE issued
        /\ UNCHANGED <<screen, configs, fs, now>> /\ cleanups' = <<>>

StoreNames == Names
StorePaths == {PathDb, PathApp, PathGone}
StoreReasons == {None, ReasonOld}

(* ArchiveService::store *)
Store(name, path, retention_days, reason) ==
    IF fs[path] = NoFile \/ fs[path] = IsDir
    THEN /\ result' = Res("store", [name |-> name, path |-> path], "IoError", None)
         /\ UNCHANGED <<screen, configs, db, fs, now, issued>> /\ cleanups' = <<>>
    ELSE LET content  == fs[path]
             metadata == Metadata(content, StrftimeNow(now), StrftimeNow(now))
             ins == ArchiveFile(db, name, path, content, FormatOf(path), retention_days,
                                IF reason = None THEN ReasonDefault ELSE reason,
                                metadata, now)
         IN  /\ db' = ins.rows
             /\ result' = IF ins.ok
                          THEN Res("store", [name |-> name, path |-> path], "Ok", ins.id)
                          ELSE Res("store", [name |-> name, path |-> path], "DbError", None)
             /\ issued' = IF ins.ok /\ ins.id > issued THEN ins.id ELSE issued
             /\ UNCHANGED <<screen, configs, fs, now>> /\ cleanups' = <<>>

----------------------------------------------------------------------------
(* restore_file that hands back some row when none has the id *)
RestoreFileAnyRow(rows, id) ==
    IF rows = {} THEN [status |-> "NoRows"]
    ELSE LET row == IF RowsById(rows, id) # {}
                    THEN CHOOSE r \in rows : r.id = id
                    ELSE CHOOSE r \in rows : TRUE
         IN  [status |-> "Ok", file |-> ArchivedFile(row), content |-> row.file_content]

(* ArchiveDb::restore_file: the row and its payload, or no row.              *)

RestoreFile(rows, id) ==
    IF ~Prepares(RestoreColumns) THEN [status |-> "DbError"]
    ELSE IF RowsById(rows, id) = {} THEN [status |-> "NoRows"]
    ELSE LET row == CHOOSE r \in rows : r.id = id
         IN  [status |-> "Ok", file |-> ArchivedFile(row), content |-> row.file_content]

(* Path::is_dir *)
IsDirectory(files, path) ==
    path = Root \/ (path \in DOMAIN files /\ files[path] = IsDir)

(* Path::parent of an absolute path: None for the root *)
Parent(path) ==
    LET slash == LastIndex(path, "/")
    IN  IF path = Root THEN None
        ELSE IF slash = 1 THEN Root
        ELSE SubSeq(path, 1, slash - 1)

(* std::fs::create_dir_all: makes the directory and every missing one above *)
(* it; fails where a file is in the way.                                    *)
RECURSIVE CreateDirAll(_, _)
CreateDirAll(files, dir) ==
    IF dir = Root THEN [ok |-> TRUE, files |-> files]
    ELSE IF dir \notin DOMAIN files THEN [ok |-> FALSE, files |-> files]
    ELSE IF files[dir] = IsDir THEN [ok |-> TRUE, files |-> files]
    ELSE IF files[dir] # NoFile THEN [ok |-> FALSE, files |-> files]
    ELSE LET up == CreateDirAll(files, Parent(dir))
         IN  IF up.ok
             THEN [ok |-> TRUE, files |-> [up.files EXCEPT ![dir] = IsDir]]
             ELSE up

(* restore that writes back to original_path whatever output_path is given *)
RestorePathOriginal(files, file, output_path) == file.original_path

(* the restore path of ArchiveService::restore *)

RestorePath(files, file, output_path) ==
    IF output_path # None
    THEN IF IsDirectory(files, output_path)
         THEN Join(output_path, file.name)
         ELSE output_path
    ELSE file.original_path

OutputPaths == {None}

(* the output paths of the restore calls of SpecRestore *)
RestoreOutputPaths == {None, DirTmp, PathOut}

(* ArchiveService::restore *)
Restore(id, output_path) ==
    LET got == RestoreFile(db, id)
        arg == [id |-> id, output_path |-> output_path]
    IN  IF got.status = "NoRows"
        THEN /\ result' = Res("restore", arg, "NotFound", id)
             /\ UNCHANGED <<screen, configs, db, fs, now, issued>> /\ cleanups' = <<>>
        ELSE IF got.status = "DbError"
        THEN /\ result' = Res("restore", arg, "DbError", None)
             /\ UNCHANGED <<screen, configs, db, fs, now, issued>> /\ cleanups' = <<>>
        ELSE LET restore_path == RestorePath(fs, got.file, output_path)
                 made == CreateDirAll(fs, Parent(restore_path))
             IN  /\ restore_path \in DOMAIN fs
                 /\ IF ~made.ok
                    THEN /\ fs' = fs
                         /\ result' = Res("restore", arg, "IoError", None)
                    ELSE IF made.files[restore_path] = IsDir
                    THEN /\ fs' = made.files
                         /\ result' = Res("restore", arg, "IoError", None)
                    ELSE /\ fs' = [made.files EXCEPT ![restore_path] = got.content]
                         /\ result' = Res("restore", arg, "Ok", restore_path)
                 /\ UNCHANGED <<screen, configs, db, now, issued>> /\ cleanups' = <<>>

----------------------------------------------------------------------------
(* ORDER BY archive_date DESC: every order of the rows in which no row      *)
(* comes before one with a later archive_date text.  Rows with the same     *)
(* archive_date come in an order SQLite does not promise.                   *)

RECURSIVE SeqsOf(_)
SeqsOf(S) ==
    IF S = {} THEN {<<>>}
    ELSE UNION {{<<x>> \o s : s \in SeqsOf(S \ {x})} : x \in S}

OrderByArchiveDateDesc(rows) ==
    {s \in SeqsOf(rows) :
        \A i \in 1..(Len(s) - 1) : ~TextLess(s[i].archive_date, s[i + 1].archive_date)}

Files(s) == [i \in 1..Len(s) |-> ArchivedFile(s[i])]

(* ArchiveDb::list_archives / ArchiveService::list *)
List ==
    /\ IF ~Prepares(ListColumns)
       THEN result' = Res("list", None, "DbError", None)
       ELSE \E s \in OrderByArchiveDateDesc(db) : result' = Res("list", None, "Ok", Files(s))
    /\ UNCHANGED <<screen, configs, db, fs, now, issued>> /\ cleanups' = <<>>

----------------------------------------------------------------------------
(* can_delete with the boundary instant left out (> for >=) *)
CanDeleteDbStrict(rows, id, t) ==
    IF RowsById(rows, id) = {} THEN [status |-> "NoRows", value |-> FALSE]
    ELSE LET row == CHOOSE r \in rows : r.id = id
         IN  [status |-> "Ok",
              value  |-> (t - ParseFromRfc3339(row.archive_date)
                              > row.retention_period * TicksPerSec)]

(* can_delete that decides on the retention the record had when the store  *)
(* was opened, not on the one it has now                                    *)
CanDeleteDbCached(rows, id, t) ==
    IF RowsById(rows, id) = {} THEN [status |-> "NoRows", value |-> FALSE]
    ELSE LET row == CHOOSE r \in rows : r.id = id
             was == {r \in ExistingRows : r.id = id}
             retention_period == IF was = {} THEN row.retention_period
                                 ELSE (CHOOSE r \in was : TRUE).retention_period
         IN  [status |-> "Ok",
              value  |-> (t - ParseFromRfc3339(row.archive_date)
                              >= retention_period * TicksPerSec)]

(* ArchiveDb::can_delete *)

CanDeleteDb(rows, id, t) ==
    IF ~Prepares(CanDeleteColumns) THEN [status |-> "DbError", value |-> FALSE]
    ELSE IF RowsById(rows, id) = {} THEN [status |-> "NoRows", value |-> FALSE]
    ELSE LET row == CHOOSE r \in rows : r.id = id
             archive_date == ParseFromRfc3339(row.archive_date)
             retention_seconds == row.retention_period * TicksPerSec
         IN  [status |-> "Ok", value |-> (t - archive_date >= retention_seconds)]

(* ArchiveService::can_delete: every database error, no row included, is DbError *)
CanDelete(id) ==
    LET got == CanDeleteDb(db, id, now)
    IN  /\ result' = IF got.status = "Ok"
                     THEN Res("can_delete", id, "Ok", got.value)
                     ELSE Res("can_delete", id, "DbError", None)
        /\ UNCHANGED <<screen, configs, db, fs, now, issued>> /\ cleanups' = <<>>

(* ArchiveDb::delete_archive *)
DeleteArchive(rows, id, t) ==
    LET got == CanDeleteDb(rows, id, t)
    IN  IF got.status # "Ok" THEN [status |-> "DbError", rows |-> rows]
        ELSE IF got.value
        THEN IF Prepares(DeleteColumns)
             THEN [status |-> "Ok", rows |-> rows \ RowsById(rows, id)]
             ELSE [status |-> "DbError", rows |-> rows]
        ELSE [status |-> "DbError", rows |-> rows]

(* ArchiveService::delete *)
Delete(id) ==
    LET can == CanDeleteDb(db, id, now)
    IN  IF can.status # "Ok"
        THEN /\ result' = Res("delete", id, "DbError", None)
             /\ UNCHANGED <<screen, configs, db, fs, now, issued>> /\ cleanups' = <<>>
        ELSE IF can.value
        THEN LET del == DeleteArchive(db, id, now)
             IN  /\ db' = del.rows
                 /\ result' = Res("delete", id, del.status, None)
                 /\ UNCHANGED <<screen, configs, fs, now, issued>> /\ cleanups' = <<>>
        ELSE /\ result' = Res("delete", id, "RetentionActive", None)
             /\ UNCHANGED <<screen, configs, db, fs, now, issued>> /\ cleanups' = <<>>

----------------------------------------------------------------------------
(* ArchiveDb::cleanup_expired: the rows the DELETE's WHERE selects.          *)

(* the WHERE of cleanup_expired with >= for > *)
ExpiredOrDue(row, t) ==
    (t \div TicksPerSec) - row.archive_date.sec >= row.retention_period

(* the WHERE of cleanup_expired with the current second counted as over *)
ExpiredEarly(row, t) ==
    StrftimeNow(t) + 1 - StrftimeS(row.archive_date) > row.retention_period

Expired(row, t) ==
    StrftimeNow(t) - StrftimeS(row.archive_date) > row.retention_period

(* cleanup_expired that counts the expired rows and deletes none *)
CleanupExpiredDryRun(rows, t) ==
    [status |-> "Ok", rows |-> rows,
     count  |-> Cardinality({r \in rows : (t \div TicksPerSec) - r.archive_date.sec
                                              > r.retention_period})]

CleanupExpired(rows, t) ==
    IF ~Prepares(CleanupColumns) THEN [status |-> "DbError", rows |-> rows, count |-> 0]
    ELSE LET gone == {r \in rows : Expired(r, t)}
         IN  [status |-> "Ok", rows |-> rows \ gone, count |-> Cardinality(gone)]

(* ArchiveService::cleanup *)
Cleanup ==
    LET done == CleanupExpired(db, now)
    IN  /\ Len(cleanups) < MaxCleanups
        /\ db' = done.rows
        /\ result' = IF done.status = "Ok"
                     THEN Res("cleanup", None, "Ok", done.count)
                     ELSE Res("cleanup", None, "DbError", None)
        /\ cleanups' = Append(cleanups, done.count)
        /\ UNCHANGED <<screen, configs, fs, now, issued>>

----------------------------------------------------------------------------
(* LIKE, as SQLite compares: % matches any run of characters, _ matches any *)
(* one character, and letters of ASCII match without regard to case.        *)

UpperCase == <<"A","B","C","D","E","F","G","H","I","J","K","L","M",
               "N","O","P","Q","R","S","T","U","V","W","X","Y","Z">>
LowerCase == <<"a","b","c","d","e","f","g","h","i","j","k","l","m",
               "n","o","p","q","r","s","t","u","v","w","x","y","z">>

Lower(c) ==
    IF \E i \in 1..Len(UpperCase) : UpperCase[i] = c
    THEN LowerCase[CHOOSE i \in 1..Len(UpperCase) : UpperCase[i] = c]
    ELSE c

RECURSIVE LikeFrom(_, _, _, _)
LikeFrom(pattern, i, text, j) ==
    IF i > Len(pattern) THEN j > Len(text)
    ELSE IF pattern[i] = "%"
    THEN \E k \in j..(Len(text) + 1) : LikeFrom(pattern, i + 1, text, k)
    ELSE IF j > Len(text) THEN FALSE
    ELSE IF pattern[i] = "_" THEN LikeFrom(pattern, i + 1, text, j + 1)
    ELSE Lower(pattern[i]) = Lower(text[j]) /\ LikeFrom(pattern, i + 1, text, j + 1)

Like(text, pattern) == LikeFrom(pattern, 1, text, 1)

(* format!("%{}%", query) *)
SearchPattern(query) == <<"%">> \o query \o <<"%">>

Queries ==
    {<<"c","o","n","f","i","g">>,
     <<"C","O","N","F","I","G">>,
     <<"n","o","t","e","s">>,
     <<"b","_","c">>,
     <<"z">>}

Texts == Names \cup Paths \cup {ReasonDefault, ReasonOld}

(* The LIKE results of the texts and queries of the model, computed once.   *)
LikeOf == [q \in Queries |-> [t \in Texts |-> Like(t, SearchPattern(q))]]

(* ArchiveDb::search_archives: the rows the WHERE selects.                   *)
SearchArchives(rows, query) ==
    {r \in rows : \/ LikeOf[query][r.name]
                  \/ LikeOf[query][r.original_path]
                  \/ LikeOf[query][r.reason]}

(* ArchiveService::search *)
Search(query) ==
    /\ IF ~Prepares(SearchColumns)
       THEN result' = Res("search", query, "DbError", None)
       ELSE \E s \in OrderByArchiveDateDesc(SearchArchives(db, query)) :
                result' = Res("search", query, "Ok", Files(s))
    /\ UNCHANGED <<screen, configs, db, fs, now, issued>> /\ cleanups' = <<>>

----------------------------------------------------------------------------
(* ArchiveService::get_retention_info (over ArchiveDb::get_archive_info)    *)

(* get_retention_info that still reports time remaining at the very instant *)
(* the retention runs out (<= for <)                                        *)
RetentionInfoLate(file, t) ==
    LET retention_period == file.retention_period * TicksPerSec
        expires == file.archive_date + retention_period
        time_remaining == IF t <= expires THEN Some(expires - t) ELSE NoNumber
    IN  [archive_date     |-> file.archive_date,
         retention_period |-> retention_period,
         time_remaining   |-> time_remaining,
         can_delete       |-> (time_remaining = NoNumber)]

RetentionInfo(file, t) ==
    LET retention_period == file.retention_period * TicksPerSec
        expires == file.archive_date + retention_period
        time_remaining == IF t < expires THEN Some(expires - t) ELSE NoNumber
    IN  [archive_date     |-> file.archive_date,
         retention_period |-> retention_period,
         time_remaining   |-> time_remaining,
         can_delete       |-> (time_remaining = NoNumber)]

GetRetentionInfo(id) ==
    /\ IF ~Prepares(InfoColumns)
       THEN result' = Res("get_retention_info", id, "DbError", None)
       ELSE IF RowsById(db, id) = {}
       THEN result' = Res("get_retention_info", id, "NotFound", id)
       ELSE result' = Res("get_retention_info", id, "Ok",
                          RetentionInfo(ArchivedFile(CHOOSE r \in db : r.id = id), now))
    /\ UNCHANGED <<screen, configs, db, fs, now, issued>> /\ cleanups' = <<>>

----------------------------------------------------------------------------
(* update_retention_period without its WHERE: every row is changed *)
UpdateRetentionPeriodAll(rows, id, new_retention_seconds) ==
    [status |-> "Ok",
     rows   |-> {[r EXCEPT !.retention_period = new_retention_seconds] : r \in rows}]

(* ArchiveDb::update_retention_period: the UPDATE changes the rows with     *)
(* that id, none when there is none, and succeeds either way.               *)

UpdateRetentionPeriod(rows, id, new_retention_seconds) ==
    IF ~Prepares(UpdateColumns) THEN [status |-> "DbError", rows |-> rows]
    ELSE [status |-> "Ok",
          rows   |-> {IF r.id = id
                      THEN [r EXCEPT !.retention_period = new_retention_seconds]
                      ELSE r : r \in rows}]

RetentionDays == 0..MaxRetentionDays

(* the ids update_retention is called on: one a record may have, one none has *)
UpdateIds == {1, 4}

(* ArchiveService::update_retention *)
UpdateRetention(id, new_retention_days) ==
    LET upd == UpdateRetentionPeriod(db, id, new_retention_days * SecondsPerDay)
    IN  /\ db' = upd.rows
        /\ result' = Res("update_retention",
                          [id |-> id, days |-> new_retention_days], upd.status, None)
        /\ UNCHANGED <<screen, configs, fs, now, issued>> /\ cleanups' = <<>>

----------------------------------------------------------------------------
(* ArchiveDb::get_statistics.  Over no rows SUM and AVG are NULL, which     *)
(* does not convert to usize or f64.                                        *)

RECURSIVE SumOver(_, _)
SumOver(rows, field) ==
    IF rows = {} THEN 0
    ELSE LET r == CHOOSE x \in rows : TRUE
         IN  r[field] + SumOver(rows \ {r}, field)

Statistics(rows, t) ==
    IF ~Prepares(StatsColumns) THEN [status |-> "DbError"]
    ELSE IF rows = {} THEN [status |-> "DbError"]
    ELSE LET total   == Cardinality(rows)
             expired == Cardinality({r \in rows : Expired(r, t)})
         IN  [status         |-> "Ok",
              total_archives |-> total,
              total_size     |-> SumOver({[id |-> r.id, size |-> r.metadata.size] : r \in rows},
                                         "size"),
              expired_count  |-> expired,
              active_count   |-> total - expired,
              \* avg_retention_days as a fraction: numerator, denominator
              avg_retention_days |-> <<SumOver(rows, "retention_period"),
                                       total * SecondsPerDay>>]

(* ArchiveService::get_statistics *)
GetStatistics ==
    LET stats == Statistics(db, now)
    IN  /\ result' = IF stats.status = "Ok"
                     THEN Res("get_statistics", None, "Ok", stats)
                     ELSE Res("get_statistics", None, "DbError", None)
        /\ UNCHANGED <<screen, configs, db, fs, now, issued>> /\ cleanups' = <<>>

----------------------------------------------------------------------------

Next ==
    \/ Advance
    \/ \E name \in StoreNames, path \in StorePaths, reason \in StoreReasons :
           Store(name, path, 1, reason)
    \/ \E id \in Ids, output_path \in OutputPaths : Restore(id, output_path)
    \/ List
    \/ \E query \in Queries : Search(query)
    \/ Cleanup
    \/ \E id \in Ids : CanDelete(id)
    \/ \E id \in Ids : Delete(id)
    \/ \E id \in Ids : GetRetentionInfo(id)
    \/ \E id \in UpdateIds, days \in RetentionDays : UpdateRetention(id, days)
    \/ GetStatistics

Spec == Init /\ [][Next]_vars

(* The retention calls with days of either sign: retention_days and         *)
(* new_retention_days are i64.                                              *)
SignedRetentionDays == (-MaxRetentionDays)..MaxRetentionDays

NextSigned ==
    \/ Advance
    \/ \E path \in StorePaths, days \in SignedRetentionDays :
           Store(NameDb, path, days, None)
    \/ \E id \in Ids, days \in SignedRetentionDays : UpdateRetention(id, days)
    \/ \E id \in Ids : CanDelete(id)
    \/ \E id \in Ids : Delete(id)
    \/ Cleanup

SpecSigned == Init /\ [][NextSigned]_vars

(* Restores to every kind of output path, among the calls that remove       *)
(* records.                                                                 *)
RestoreIds == {1, 3, 4}

NextRestore ==
    \/ Advance
    \/ \E id \in RestoreIds, output_path \in RestoreOutputPaths :
           Restore(id, output_path)
    \/ \E id \in RestoreIds : GetRetentionInfo(id)
    \/ \E id \in Ids : Delete(id)
    \/ Cleanup

SpecRestore == Init /\ [][NextRestore]_vars

TypeOK ==
    /\ SchemaOk(db)
    /\ now \in Instants
    /\ DOMAIN fs = FsPaths
    /\ \A c, d \in configs : c.name = d.name => c = d

----------------------------------------------------------------------------
(* paramguard-core/src/config: ConfigManager, a map from names to           *)
(* ConfigFiles over the files they are kept in.  File content is a sequence *)
(* of bytes (ASCII codes).                                                  *)

ContentBraces == <<123, 125>>                       \* {}
ContentKey    == <<123, 34, 107, 34, 58, 49, 125>>  \* {"k":1}
ContentToml   == <<107, 61, 49>>                    \* k=1
ContentBad    == <<120>>                            \* x
ContentDashes == <<45, 45, 45>>                     \* ---
ContentNix    == <<123, 32, 125>>                   \* { }
ContentCfg    == <<35, 32, 67, 111, 110, 102, 105, 103, 117, 114, 97, 116, 105,
                   111, 110, 32, 70, 105, 108, 101>> \* # Configuration File

(* an Option<&str>: absent, or a content *)
NoContent == <<>>
SomeContent(content) == <<content>>

LowerAll(s) == [i \in 1..Len(s) |-> Lower(s[i])]

(* ConfigFormat::from_extension *)
FromExtension(ext) ==
    LET e == LowerAll(ext)
    IN  IF e = <<"j","s","o","n">> THEN [ok |-> TRUE, format |-> "Json"]
        ELSE IF e = <<"y","a","m","l">> \/ e = <<"y","m","l">>
        THEN [ok |-> TRUE, format |-> "Yaml"]
        ELSE IF e = <<"t","o","m","l">> THEN [ok |-> TRUE, format |-> "Toml"]
        ELSE IF e = <<"i","n","i">> THEN [ok |-> TRUE, format |-> "Ini"]
        ELSE IF e = <<"e","n","v">> THEN [ok |-> TRUE, format |-> "Env"]
        ELSE IF e = <<"c","f","g">> THEN [ok |-> TRUE, format |-> "Cfg"]
        ELSE IF e = <<"n","i","x">> THEN [ok |-> TRUE, format |-> "Nix"]
        ELSE [ok |-> FALSE, format |-> "none"]

(* ConfigManager::detect_format *)
DetectFormat(path) ==
    IF Extension(path) = None THEN [ok |-> FALSE, format |-> "none"]
    ELSE FromExtension(Extension(path))

(* ConfigFormat::get_default_content *)
GetDefaultContent(format) ==
    IF format = "Json" THEN ContentBraces
    ELSE IF format = "Yaml" THEN ContentDashes
    ELSE IF format = "Cfg" THEN ContentCfg
    ELSE IF format = "Nix" THEN ContentNix
    ELSE <<>>

(* Path::file_name *)
FileName(path) == SubSeq(path, LastIndex(path, "/") + 1, Len(path))

(* The formats configs have here, and what their parsers make of the        *)
(* contents here: serde_json takes {} and {"k":1}, toml takes the empty     *)
(* document and k=1.                                                        *)
CfgFormats == {"Json", "Toml"}
ValidJson == {ContentBraces, ContentKey}
ValidToml == {<<>>, ContentToml}

(* ConfigManager::validate_format *)
ValidateFormat(format, content) ==
    IF format = "Json" THEN content \in ValidJson ELSE content \in ValidToml

ConfigFile(name, path, format, content, t) ==
    [name |-> name, path |-> path, format |-> format, content |-> content,
     last_modified |-> t]

(* ConfigManager::exists that finds no name *)
ExistsNever(cfgs, name) == FALSE

(* ConfigManager::exists *)

Exists(cfgs, name) == \E c \in cfgs : c.name = name

(* HashMap::insert: the entry of that name, if any, is replaced *)
Insert(cfgs, config) == {c \in cfgs : c.name # config.name} \cup {config}

(* Path::exists *)
PathExists(files, path) ==
    path = Root \/ (path \in DOMAIN files /\ files[path] # NoFile)

Out(status, cfgs, files) == [status |-> status, configs |-> cfgs, files |-> files]

(* ConfigManager::add_config_file *)
AddConfigFileOp(cfgs, files, path, t) ==
    IF ~PathExists(files, path) THEN Out("ConfigNotFound", cfgs, files)
    ELSE IF ~DetectFormat(path).ok THEN Out("InvalidFormat", cfgs, files)
    ELSE IF files[path] = IsDir THEN Out("ReadError", cfgs, files)
    ELSE IF Exists(cfgs, FileName(path)) THEN Out("ConfigExists", cfgs, files)
    ELSE IF ~ValidateFormat(DetectFormat(path).format, files[path])
    THEN Out("ParseError", cfgs, files)
    ELSE Out("Ok",
             Insert(cfgs, ConfigFile(FileName(path), path, DetectFormat(path).format,
                                     files[path], t)),
             files)

(* create_config_file that writes and keeps the content as it is given *)
CreateConfigFileOpUnchecked(cfgs, files, name, path, format, init_content, t) ==
    IF Exists(cfgs, name) THEN Out("ConfigExists", cfgs, files)
    ELSE IF PathExists(files, path) THEN Out("ConfigExists", cfgs, files)
    ELSE LET content == IF init_content = NoContent THEN <<>> ELSE init_content[1]
             made == CreateDirAll(files, Parent(path))
         IN  IF ~made.ok THEN Out("ReadError", cfgs, files)
             ELSE Out("Ok",
                      Insert(cfgs, ConfigFile(name, path, format, content, t)),
                      [made.files EXCEPT ![path] = content])

(* ConfigManager::create_config_file *)
CreateConfigFileOp(cfgs, files, name, path, format, init_content, t) ==
    IF Exists(cfgs, name) THEN Out("ConfigExists", cfgs, files)
    ELSE IF PathExists(files, path) THEN Out("ConfigExists", cfgs, files)
    ELSE LET content == IF init_content = NoContent \/ init_content[1] = <<>>
                        THEN GetDefaultContent(format)
                        ELSE init_content[1]
             made == CreateDirAll(files, Parent(path))
         IN  IF ~ValidateFormat(format, content) THEN Out("ParseError", cfgs, files)
             ELSE IF ~made.ok THEN Out("ReadError", cfgs, files)
             ELSE Out("Ok",
                      Insert(cfgs, ConfigFile(name, path, format, content, t)),
                      [made.files EXCEPT ![path] = content])


(* update_config that writes the file before it looks at the content *)
UpdateConfigOpWriteFirst(cfgs, files, name, content, t) ==
    IF ~Exists(cfgs, name) THEN Out("ConfigNotFound", cfgs, files)
    ELSE LET config == CHOOSE c \in cfgs : c.name = name
             written == IF PathExists(files, config.path) /\ files[config.path] # IsDir
                        THEN [files EXCEPT ![config.path] = content]
                        ELSE files
         IN  IF ~ValidateFormat(config.format, content)
             THEN Out("ValidationError", cfgs, written)
             ELSE IF ~PathExists(files, config.path)
             THEN Out("ConfigNotFound", cfgs, files)
             ELSE IF files[config.path] = IsDir THEN Out("ReadError", cfgs, files)
             ELSE Out("Ok",
                      Insert(cfgs, [config EXCEPT !.content = content,
                                                  !.last_modified = t]),
                      written)

(* ConfigManager::update_config *)

UpdateConfigOp(cfgs, files, name, content, t) ==
    IF ~Exists(cfgs, name) THEN Out("ConfigNotFound", cfgs, files)
    ELSE LET config == CHOOSE c \in cfgs : c.name = name
         IN  IF ~ValidateFormat(config.format, content)
             THEN Out("ValidationError", cfgs, files)
             ELSE IF ~PathExists(files, config.path)
             THEN Out("ConfigNotFound", cfgs, files)
             ELSE IF files[config.path] = IsDir THEN Out("ReadError", cfgs, files)
             ELSE Out("Ok",
                      Insert(cfgs, [config EXCEPT !.content = content,
                                                  !.last_modified = t]),
                      [files EXCEPT ![config.path] = content])

(* delete_config that forgets the entry and leaves the file *)
DeleteConfigOpKeepFile(cfgs, files, name) ==
    IF ~Exists(cfgs, name) THEN Out("ConfigNotFound", cfgs, files)
    ELSE Out("Ok", {c \in cfgs : c.name # name}, files)

(* ConfigManager::delete_config *)

DeleteConfigOp(cfgs, files, name) ==
    IF ~Exists(cfgs, name) THEN Out("ConfigNotFound", cfgs, files)
    ELSE LET config == CHOOSE c \in cfgs : c.name = name
             removed == {c \in cfgs : c.name # name}
         IN  IF ~PathExists(files, config.path) THEN Out("Ok", removed, files)
             ELSE IF files[config.path] = IsDir
             THEN Out("ReadError", Insert(removed, config), files)
             ELSE Out("Ok", removed, [files EXCEPT ![config.path] = NoFile])

AddPaths == {PathDb, PathNotes, PathGone}
CfgNames == {FileName(PathDb), FileName(PathNotes)}
CreatePaths == {PathApp, PathOut}
InitContents == {NoContent, SomeContent(<<>>), SomeContent(ContentKey),
                 SomeContent(ContentBad)}
UpdateContents == {ContentKey, ContentToml, ContentBad}

AddConfigFile(path) ==
    LET out == AddConfigFileOp(configs, fs, path, now)
    IN  /\ configs' = out.configs
        /\ fs' = out.files
        /\ result' = Res("add_config_file", path, out.status, None)
        /\ UNCHANGED <<db, now, cleanups, issued, screen>>

CreateConfigFile(name, path, format, init_content) ==
    LET out == CreateConfigFileOp(configs, fs, name, path, format, init_content, now)
    IN  /\ configs' = out.configs
        /\ fs' = out.files
        /\ result' = Res("create_config_file",
                          [name |-> name, path |-> path, format |-> format,
                           init_content |-> init_content],
                          out.status, None)
        /\ UNCHANGED <<db, now, cleanups, issued, screen>>

UpdateConfig(name, content) ==
    LET out == UpdateConfigOp(configs, fs, name, content, now)
    IN  /\ configs' = out.configs
        /\ fs' = out.files
        /\ result' = Res("update_config", [name |-> name, content |-> content],
                          out.status, None)
        /\ UNCHANGED <<db, now, cleanups, issued, screen>>

DeleteConfig(name) ==
    LET out == DeleteConfigOp(configs, fs, name)
    IN  /\ configs' = out.configs
        /\ fs' = out.files
        /\ result' = Res("delete_config", name, out.status, None)
        /\ UNCHANGED <<db, now, cleanups, issued, screen>>

(* Someone else removes a config's file (std::fs::remove_file).             *)
RemoveFile(path) ==
    /\ fs[path] # NoFile /\ fs[path] # IsDir
    /\ fs' = [fs EXCEPT ![path] = NoFile]
    /\ result' = Idle
    /\ UNCHANGED <<db, now, cleanups, issued, configs, screen>>

(* Utc::now() moves on between the calls of a manager. *)
Tick ==
    /\ now < LastInstant
    /\ now' = LastInstant
    /\ result' = Idle
    /\ UNCHANGED <<db, fs, cleanups, issued, configs, screen>>

(* A new manager (ConfigManager::new) beside files that are already there. *)
InitConfig ==
    /\ db = {}
    /\ fs = [p \in FsPaths |->
                IF p = PathDb THEN ContentBraces
                ELSE IF p = PathNotes THEN ContentToml
                ELSE IF p = DirEtc \/ p = DirHome THEN IsDir
                ELSE NoFile]
    /\ now = LastInstant - 1
    /\ result = Idle
    /\ cleanups = <<>>
    /\ issued = 0
    /\ configs = {}
    /\ screen = NewScreen

NextConfig ==
    \/ Tick
    \/ \E path \in AddPaths : AddConfigFile(path)
    \/ \E name \in CfgNames, path \in CreatePaths, format \in CfgFormats,
           init_content \in InitContents :
           CreateConfigFile(name, path, format, init_content)
    \/ \E name \in CfgNames, content \in UpdateContents : UpdateConfig(name, content)
    \/ \E name \in CfgNames : DeleteConfig(name)
    \/ \E path \in {PathDb, PathApp} : RemoveFile(path)

SpecConfig == InitConfig /\ [][NextConfig]_vars

----------------------------------------------------------------------------
(* What the claims speak of.                                                 *)

(* The instant a record's retention has run out: archive_timestamp +        *)
(* retention_seconds, in ticks.                                              *)
ExpiresAt(r) == ParseFromRfc3339(r.archive_date) + r.retention_period * TicksPerSec

(* delete-eligible: now - archive_timestamp >= retention_seconds *)
DeleteEligible(r, t) == t >= ExpiresAt(r)

(* now - archive_timestamp > retention_seconds, on the instants themselves *)
PastRetention(r, t) == t > ExpiresAt(r)

(* the same on whole seconds: each instant cut down to its second first *)
PastRetentionWholeSeconds(r, t) ==
    (t \div TicksPerSec) - (ParseFromRfc3339(r.archive_date) \div TicksPerSec)
        > r.retention_period

IsSortedDesc(files) ==
    \A i \in 1..(Len(files) - 1) : files[i].archive_date >= files[i + 1].archive_date

(* files holds each row of rows exactly once, and nothing else *)
HoldsExactly(files, rows) ==
    /\ Len(files) = Cardinality(rows)
    /\ \A r \in rows : \E i \in 1..Len(files) : files[i] = ArchivedFile(r)

----------------------------------------------------------------------------
(* C1.  Round trip: store on a readable file succeeds and returns the id of *)
(* a record holding the file's bytes and their digest, and restore of a     *)
(* record with no output path writes exactly the record's bytes to its      *)
(* original_path, whose digest is the stored content_hash.                  *)
C1_RoundTrip ==
    /\ (result.op = "store" /\ fs[result.arg.path] # NoFile) =>
           /\ result.status = "Ok"
           /\ \E r \in db : /\ r.id = result.value
                            /\ r.file_content = fs[result.arg.path]
                            /\ r.content_hash = Sha256Hex(fs[result.arg.path])
    /\ (result.op = "restore" /\ result.status = "Ok") =>
           \E r \in db : /\ r.id = result.arg.id
                         /\ result.value = r.original_path
                         /\ fs[r.original_path] = r.file_content
                         /\ Sha256Hex(fs[r.original_path]) = r.content_hash

(* C2.  Delete gating: delete of an existing record that is not             *)
(* delete-eligible fails with RetentionActive and changes nothing, and the  *)
(* record is still handed back by list, restore and get_retention_info      *)
(* right after.                                                             *)
C2_DeleteGating ==
    [][\A id \in Ids : \A r \in RowsById(db, id) :
          ~DeleteEligible(r, now) =>
              /\ (result'.op = "delete" /\ result'.arg = id) =>
                     (result'.status = "RetentionActive" /\ db' = db /\ fs' = fs)
              /\ (result.op = "delete" /\ result.arg = id /\ now' = now) =>
                     /\ result'.op = "list" =>
                            /\ result'.status = "Ok"
                            /\ \E i \in 1..Len(result'.value) :
                                   result'.value[i] = ArchivedFile(r)
                     /\ (result'.op = "restore" /\ result'.arg.id = id) =>
                            /\ result'.status = "Ok"
                            /\ fs'[r.original_path] = r.file_content
                     /\ (result'.op = "get_retention_info" /\ result'.arg = id) =>
                            /\ result'.status = "Ok"
                            /\ result'.value.archive_date = ParseFromRfc3339(r.archive_date)
      ]_vars

(* The gate alone: the failed delete, without the calls after it.           *)
DeleteGate ==
    [][\A id \in Ids : \A r \in RowsById(db, id) :
          (~DeleteEligible(r, now) /\ result'.op = "delete" /\ result'.arg = id) =>
              (result'.status = "RetentionActive" /\ db' = db /\ fs' = fs)
      ]_vars

(* C3.  Retention monotonicity: for a record with a retention of d > 0     *)
(* days, can_delete answers false at every instant before                   *)
(* archive_timestamp + d days and true at every instant from then on; once  *)
(* it is true it stays true while the clock moves on and the record is      *)
(* left alone.                                                              *)
C3_RetentionMonotonic ==
    /\ [](\A id \in Ids : \A r \in RowsById(db, id) :
             (result.op = "can_delete" /\ result.arg = id /\ r.retention_period > 0) =>
                 /\ result.status = "Ok"
                 /\ result.value = (now >= ParseFromRfc3339(r.archive_date)
                                           + r.retention_period * TicksPerSec))
    /\ [][\A r \in db :
             (r \in db' /\ r.retention_period > 0 /\ CanDeleteDb(db, r.id, now).value) =>
                 CanDeleteDb(db', r.id, now').value
         ]_vars

(* can_delete has just answered true at the very instant the retention of a *)
(* record kept for d > 0 days ran out                                       *)
C3_Witness ==
    /\ result.op = "can_delete"
    /\ result.status = "Ok"
    /\ \E r \in RowsById(db, result.arg) :
           r.retention_period > 0 /\ now = ExpiresAt(r) /\ result.value = TRUE

(* C4, as the claim has it.  cleanup removes exactly the records with       *)
(* now - archive_timestamp > retention_seconds, returns how many it         *)
(* removed and leaves every other record as it was; a single record kept    *)
(* for one day is removed by a cleanup two days on, which returns 1.        *)
C4_CleanupExact ==
    [][Len(cleanups') = Len(cleanups) + 1 =>
          /\ result'.op = "cleanup" /\ result'.status = "Ok"
          /\ db' = {r \in db : ~PastRetention(r, now)}
          /\ result'.value = Cardinality(db \ db')
          /\ fs' = fs
          /\ \A r \in db :
                 (db = {r} /\ r.retention_period = SecondsPerDay
                           /\ now - ParseFromRfc3339(r.archive_date) >= 2 * DayTicks) =>
                     (result'.value = 1 /\ db' = {})
      ]_vars

(* C4, amended.  The same, with both instants cut down to whole seconds     *)
(* before they are subtracted.                                              *)
C4_CleanupWholeSeconds ==
    [][Len(cleanups') = Len(cleanups) + 1 =>
          /\ result'.op = "cleanup" /\ result'.status = "Ok"
          /\ db' = {r \in db : ~PastRetentionWholeSeconds(r, now)}
          /\ result'.value = Cardinality(db \ db')
          /\ fs' = fs
          /\ \A r \in db :
                 (db = {r} /\ r.retention_period = SecondsPerDay
                           /\ now - ParseFromRfc3339(r.archive_date) >= 2 * DayTicks) =>
                     (result'.value = 1 /\ db' = {})
      ]_vars

(* a cleanup has just removed a record and kept another whose retention     *)
(* ran out less than a second ago                                           *)
C4_Witness ==
    /\ result.op = "cleanup"
    /\ result.status = "Ok"
    /\ result.value >= 1
    /\ \E r \in db : PastRetention(r, now) /\ ~PastRetentionWholeSeconds(r, now)

C6_Statistics ==
    result.op = "get_statistics" =>
        /\ result.status = "Ok"
        /\ result.value.total_archives = Cardinality(db)
        /\ result.value.active_count + result.value.expired_count
               = result.value.total_archives
        /\ result.value.expired_count <= result.value.total_archives

(* text contains query as a substring, letters compared without regard to  *)
(* case                                                                     *)
ContainsIgnoreCase(text, query) ==
    \E i \in 0..(Len(text) - Len(query)) :
        \A k \in 1..Len(query) : Lower(text[i + k]) = Lower(query[k])

ContainsOf == [q \in Queries |-> [t \in Texts |-> ContainsIgnoreCase(t, q)]]

(* C7.  Search correctness: search(query) succeeds and returns exactly the  *)
(* records whose name, original_path or reason contains query as a          *)
(* case-insensitive substring, each once, ordered by archive_timestamp      *)
(* descending.                                                              *)
C7_Search ==
    result.op = "search" =>
        /\ result.status = "Ok"
        /\ HoldsExactly(result.value,
                        {r \in db : \/ ContainsOf[result.arg][r.name]
                                    \/ ContainsOf[result.arg][r.original_path]
                                    \/ ContainsOf[result.arg][r.reason]})
        /\ IsSortedDesc(result.value)

(* C8.  list succeeds and returns every record of the store exactly once,   *)
(* ordered by archive_timestamp descending.                                 *)
C8_List ==
    result.op = "list" =>
        /\ result.status = "Ok"
        /\ HoldsExactly(result.value, db)
        /\ IsSortedDesc(result.value)

C10_UniqueNameDate ==
    /\ [](\A r, q \in db :
             (r.name = q.name /\ r.archive_date = q.archive_date) => r = q)
    /\ [][(/\ result'.op = "store"
           /\ now' = now
           /\ fs[result'.arg.path] # NoFile
           /\ \E r \in db : r.name = result'.arg.name /\ r.archive_date = ToRfc3339(now))
          => (result'.status = "DbError" /\ db' = db)
         ]_vars

(* a store of a name that a record archived at this very instant already    *)
(* bears has just failed with a storage error                               *)
C10_Witness ==
    /\ result.op = "store"
    /\ result.status = "DbError"
    /\ fs[result.arg.path] # NoFile
    /\ \E r \in db : r.name = result.arg.name /\ r.archive_date = ToRfc3339(now)

(* C11.  No record ever has a negative retention_seconds, whatever          *)
(* retention_days store and whatever new_retention_days update_retention    *)
(* is called with, negative days included.                                  *)
C11_RetentionNonNegative ==
    \A r \in db : r.retention_period >= 0

(* every field of a record but its retention_seconds *)
SameButRetention(r, q) ==
    [r EXCEPT !.retention_period = 0] = [q EXCEPT !.retention_period = 0]

ReadOnlyOps ==
    {"list", "search", "can_delete", "get_retention_info", "get_statistics", "restore"}

(* C12.  No call changes a record's id, name, original_path, format,        *)
(* content_hash, archive_timestamp, reason, metadata or payload;            *)
(* update_retention(id, days) sets the retention_seconds of the record      *)
(* with that id to days * 86400 and leaves every other record as it was;    *)
(* list, search, can_delete, get_retention_info, get_statistics and         *)
(* restore leave the store as it was.                                       *)
C12_FrameEffect ==
    [][/\ \A r \in db : \A q \in db' :
              q.id = r.id =>
                  /\ SameButRetention(r, q)
                  /\ q # r => (result'.op = "update_retention" /\ result'.arg.id = r.id)
       /\ result'.op = "update_retention" =>
              /\ Cardinality(db') = Cardinality(db)
              /\ \A r \in db : \E q \in db' :
                     /\ q.id = r.id
                     /\ q.retention_period =
                            IF r.id = result'.arg.id
                            THEN result'.arg.days * SecondsPerDay
                            ELSE r.retention_period
       /\ result'.op \in ReadOnlyOps => db' = db
      ]_vars

(* update_retention has just given a record a retention it did not have,    *)
(* beside a record it left alone                                            *)
C12_Witness ==
    /\ result.op = "update_retention"
    /\ result.status = "Ok"
    /\ \E r \in db : /\ r.id = result.arg.id
                     /\ r \notin ExistingRows
                     /\ r.retention_period = result.arg.days * SecondsPerDay
    /\ \E q \in db : q.id # result.arg.id /\ q \in ExistingRows

(* C13.  update_retention on an id that no record has fails with            *)
(* NotFound(id) and changes nothing in the store.                           *)
C13_UpdateNotFound ==
    [][(result'.op = "update_retention" /\ RowsById(db, result'.arg.id) = {}) =>
           (result'.status = "NotFound" /\ db' = db /\ fs' = fs)
      ]_vars

(* C14.  restore and get_retention_info on an id that no record has fail    *)
(* with NotFound carrying that id, and such a restore writes no file and    *)
(* makes no directory.                                                      *)
C14_NotFound ==
    [][/\ (result'.op = "restore" /\ RowsById(db, result'.arg.id) = {}) =>
              /\ result'.status = "NotFound"
              /\ result'.value = result'.arg.id
              /\ fs' = fs
              /\ db' = db
       /\ (result'.op = "get_retention_info" /\ RowsById(db, result'.arg) = {}) =>
              /\ result'.status = "NotFound"
              /\ result'.value = result'.arg
              /\ fs' = fs
              /\ db' = db
      ]_vars

(* restore to a directory that is not there has just failed with NotFound   *)
(* on the id of a record that was restored before and is gone since         *)
C14_Witness ==
    /\ result.op = "restore"
    /\ result.status = "NotFound"
    /\ result.arg.id = 3
    /\ result.arg.output_path = PathOut
    /\ fs[PathNotes] = <<3>>
    /\ fs[DirTmp] = NoFile

(* delete of a delete-eligible record: it succeeds and removes that record, *)
(* payload included, and no other                                           *)
DeleteRemoves ==
    [][\A id \in Ids : \A r \in RowsById(db, id) :
          (DeleteEligible(r, now) /\ result'.op = "delete" /\ result'.arg = id
                                  /\ now' = now) =>
              (result'.status = "Ok" /\ db' = db \ {r} /\ fs' = fs)
      ]_vars

(* C15.  delete of a delete-eligible record succeeds and removes that       *)
(* record and its payload for good: right after, restore and                *)
(* get_retention_info of the id fail with NotFound, list no longer holds    *)
(* the record, total_archives is one less, and every other record is as it  *)
(* was.                                                                     *)
C15_DeleteEligible ==
    [][/\ \A id \in Ids : \A r \in RowsById(db, id) :
              (DeleteEligible(r, now) /\ result'.op = "delete" /\ result'.arg = id
                                      /\ now' = now) =>
                  (result'.status = "Ok" /\ db' = db \ {r} /\ fs' = fs)
       /\ \A id \in Ids :
              (result.op = "delete" /\ result.arg = id /\ result.status = "Ok"
                                    /\ now' = now) =>
                  /\ (result'.op = "restore" /\ result'.arg.id = id) =>
                         (result'.status = "NotFound" /\ result'.value = id)
                  /\ (result'.op = "get_retention_info" /\ result'.arg = id) =>
                         (result'.status = "NotFound" /\ result'.value = id)
                  /\ result'.op = "list" =>
                         /\ result'.status = "Ok"
                         /\ \A i \in 1..Len(result'.value) : result'.value[i].id # id
                         /\ HoldsExactly(result'.value, db)
                  /\ result'.op = "get_statistics" =>
                         /\ result'.status = "Ok"
                         /\ result'.value.total_archives = Cardinality(db)
      ]_vars

(* C16.  store on a path that cannot be read fails with IoError, returns    *)
(* no id and makes no record: the store, and so what list and               *)
(* get_statistics answer, is as it was, and the error is the caller's to    *)
(* see.                                                                     *)
C16_StoreIoError ==
    [][(/\ result'.op = "store"
        /\ now' = now
        /\ (fs[result'.arg.path] = NoFile \/ fs[result'.arg.path] = IsDir))
       => (/\ result'.status = "IoError"
           /\ result'.value = None
           /\ db' = db
           /\ fs' = fs
           /\ issued' = issued)
      ]_vars

(* a store of a path that names no file has just failed with IoError, with  *)
(* records in the store                                                     *)
C16_Witness ==
    /\ result.op = "store"
    /\ result.status = "IoError"
    /\ fs[result.arg.path] = NoFile
    /\ db # {}

(* the path the claim resolves: output_path with the record's name appended *)
(* when output_path is an existing directory, output_path itself when it is *)
(* given and is none, the record's original_path when none is given         *)
ResolvedPath(files, r, output_path) ==
    IF output_path = None THEN r.original_path
    ELSE IF files[output_path] = IsDir THEN output_path \o <<"/">> \o r.name
    ELSE output_path

(* C17.  A restore that succeeds has written the payload to the resolved    *)
(* path, over whatever file was there, has returned that path, and has      *)
(* left the archive record as it was.                                       *)
C17_RestoreResolves ==
    [][(result'.op = "restore" /\ result'.status = "Ok") =>
           \A r \in RowsById(db, result'.arg.id) :
               LET resolved == ResolvedPath(fs, r, result'.arg.output_path)
               IN  /\ result'.value = resolved
                   /\ fs'[resolved] = r.file_content
                   /\ db' = db
      ]_vars

(* a restore into the existing directory /tmp has just written the file     *)
(* named after the record there, after an earlier restore wrote the         *)
(* record's payload over the file at its original_path                      *)
C17_Witness ==
    /\ result.op = "restore"
    /\ result.status = "Ok"
    /\ result.arg.output_path = DirTmp
    /\ result.value = DirTmp \o <<"/">> \o NameDb
    /\ fs[result.value] = <<1, 2>>
    /\ fs[PathDb] = <<1, 2>>

(* name is one of the managed names *)
IsManaged(cfgs, name) == name \in {c.name : c \in cfgs}

(* the managed entry of a name *)
Managed(cfgs, name) == CHOOSE c \in cfgs : c.name = name

(* path names a file that is there (and no directory) *)
IsFile(files, path) == files[path] # NoFile /\ files[path] # IsDir

(* C18, as the claim has it.  Names are unique in a ConfigManager:          *)
(* add_config_file on a file whose file name is managed already, and        *)
(* create_config_file with a name that is managed already or a path that    *)
(* is there on disk already, fail with ConfigExists and leave the managed   *)
(* set, the content of its entries included, and the files on disk as they  *)
(* were.                                                                    *)
C18_NamesUnique ==
    /\ [](\A c, d \in configs : c.name = d.name => c = d)
    /\ [][ /\ (/\ result'.op = "add_config_file"
               /\ IsFile(fs, result'.arg)
               /\ IsManaged(configs, FileName(result'.arg)))
              => (result'.status = "ConfigExists" /\ configs' = configs /\ fs' = fs)
           /\ (/\ result'.op = "create_config_file"
               /\ (IsManaged(configs, result'.arg.name) \/ PathExists(fs, result'.arg.path)))
              => (result'.status = "ConfigExists" /\ configs' = configs /\ fs' = fs)
         ]_vars

(* C18, amended.  The same, for add_config_file on a file whose extension   *)
(* is one of the supported ones; on a file with another or no extension     *)
(* add_config_file fails as well and changes nothing, but with              *)
(* InvalidFormat.                                                           *)
C18_NamesUniqueKnownFormat ==
    /\ [](\A c, d \in configs : c.name = d.name => c = d)
    /\ [][ /\ (/\ result'.op = "add_config_file"
               /\ IsFile(fs, result'.arg)
               /\ IsManaged(configs, FileName(result'.arg)))
              => /\ result'.status = IF DetectFormat(result'.arg).ok
                                     THEN "ConfigExists" ELSE "InvalidFormat"
                 /\ configs' = configs
                 /\ fs' = fs
           /\ (/\ result'.op = "create_config_file"
               /\ (IsManaged(configs, result'.arg.name) \/ PathExists(fs, result'.arg.path)))
              => (result'.status = "ConfigExists" /\ configs' = configs /\ fs' = fs)
         ]_vars

(* add_config_file has just failed with ConfigExists on a file whose name   *)
(* is managed, beside an entry whose content is no longer what that file    *)
(* holds                                                                    *)
C18_Witness ==
    /\ result.op = "add_config_file"
    /\ result.status = "ConfigExists"
    /\ IsFile(fs, result.arg)
    /\ IsManaged(configs, FileName(result.arg))
    /\ Managed(configs, FileName(result.arg)).content # fs[result.arg]

C20_DeleteConfig ==
    [][/\ result'.op = "delete_config" =>
              LET name == result'.arg
              IN  /\ (IsManaged(configs, name)
                          /\ fs[Managed(configs, name).path] # IsDir) =>
                         /\ result'.status = "Ok"
                         /\ configs' = configs \ {Managed(configs, name)}
                         /\ fs'[Managed(configs, name).path] = NoFile
                         /\ \A p \in FsPaths :
                                p # Managed(configs, name).path => fs'[p] = fs[p]
                  /\ ~IsManaged(configs, name) =>
                         (result'.status = "ConfigNotFound" /\ configs' = configs
                                                           /\ fs' = fs)
       /\ (/\ result.op = "delete_config" /\ result.status = "Ok"
           /\ result'.op = "delete_config" /\ result'.arg = result.arg)
          => result'.status = "ConfigNotFound"
      ]_vars

(* the second delete_config of a name has just failed, the first having     *)
(* removed the file the config was kept in                                  *)
C20_Witness ==
    /\ result.op = "delete_config"
    /\ result.status = "ConfigNotFound"
    /\ result.arg = FileName(PathDb)
    /\ fs[PathDb] = NoFile
    /\ fs[PathApp] = NoFile
    /\ fs[PathOut] = NoFile

----------------------------------------------------------------------------
(* ArchivedFile::to_display_info (archive/db.rs) over DefaultFormatter and  *)
(* UiType (archive/interface/display.rs): the record a user interface       *)
(* shows for an archived file.                                              *)
(*                                                                          *)
(* A String is its UTF-8 bytes.  A character of ASCII is one byte, written  *)
(* as that character; the two bytes of a two-byte character are written     *)
(* "C3" (the first) and "A9" (the continuation byte).                       *)

UiTypes == {"CliDetailed", "CliTerse", "Tui", "Gui"}

(* UiType::get_truncate_lengths *)
GetTruncateLengths(ui_type) ==
    IF ui_type = "CliDetailed" THEN [name |-> Some(30), path |-> Some(40)]
    ELSE IF ui_type = "Tui" THEN [name |-> Some(20), path |-> Some(30)]
    ELSE [name |-> NoNumber, path |-> NoNumber]

(* str::is_char_boundary: the start, the end, and every byte that is not a  *)
(* continuation byte                                                        *)
IsCharBoundary(s, k) ==
    k = 0 \/ k = Len(s) \/ (k < Len(s) /\ s[k + 1] # "A9")

(* usize::saturating_sub *)
SaturatingSub(a, b) == IF a >= b THEN a - b ELSE 0

(* DefaultFormatter::truncate.  &s[..k] panics where k is inside a          *)
(* character.                                                               *)
Truncate(s, max_len) ==
    IF max_len # NoNumber /\ Len(s) > max_len[1]
    THEN [panic |-> ~IsCharBoundary(s, SaturatingSub(max_len[1], 3)),
          text  |-> SubSeq(s, 1, SaturatingSub(max_len[1], 3)) \o <<" ", ".", ".", ".">>]
    ELSE [panic |-> FALSE, text |-> s]

(* DefaultFormatter::format_size: the number shown (in hundredths above a   *)
(* kilobyte, {:.2}) and its unit                                            *)
FormatSize(size) ==
    LET kb == 1024
        mb == kb * 1024
        gb == mb * 1024
        Hundredths(unit) == (size * 200 + unit) \div (2 * unit)
    IN  IF size >= gb THEN [value |-> Hundredths(gb), unit |-> "GB"]
        ELSE IF size >= mb THEN [value |-> Hundredths(mb), unit |-> "MB"]
        ELSE IF size >= kb THEN [value |-> Hundredths(kb), unit |-> "KB"]
        ELSE [value |-> size, unit |-> "B"]

(* i64 division, which rounds toward zero (TimeDelta::num_days, num_hours,  *)
(* num_minutes)                                                             *)
TruncDiv(a, b) == IF a >= 0 THEN a \div b ELSE -((-a) \div b)

(* DefaultFormatter::format_age, called at instant t *)
FormatAge(date, t) ==
    LET duration    == t - date
        num_days    == TruncDiv(duration, DayTicks)
        num_hours   == TruncDiv(duration, 3600 * TicksPerSec)
        num_minutes == TruncDiv(duration, 60 * TicksPerSec)
    IN  IF num_days > 0 THEN [n |-> num_days, unit |-> "days"]
        ELSE IF num_hours > 0 THEN [n |-> num_hours, unit |-> "hours"]
        ELSE [n |-> num_minutes, unit |-> "minutes"]

(* DefaultFormatter::format_timestamp: the second it shows.  The timestamps *)
(* here are all seconds chrono can represent, so from_timestamp gives Some. *)
FormatTimestamp(timestamp) == [sec |-> timestamp]

(* The metadata column is a text.  The text of a JSON object is the record  *)
(* of its members; a text that is no JSON document (the empty text is one)  *)
(* is the record of the one field garbage.                                  *)
MetadataEmpty == [garbage |-> <<>>]
MetadataNotJson == [garbage |-> <<"n", "/", "a">>]

(* serde_json::from_str(..).ok() *)
FromStr(text) == IF "garbage" \in DOMAIN text THEN <<>> ELSE <<text>>

(* md[key].as_u64(): a missing member is Null, and neither Null nor a       *)
(* negative number is a u64                                                 *)
AsU64(md, key) ==
    IF key \in DOMAIN md /\ md[key] >= 0 THEN Some(md[key]) ELSE NoNumber

(* ArchivedFile::get_status_string, with Utc::now() = t in it and in the    *)
(* format_age it calls                                                      *)
GetStatusString(file, t) ==
    LET expiration_date == file.archive_date + file.retention_period * TicksPerSec
    IN  IF t >= expiration_date
        THEN [text |-> "Expired", n |-> 0, unit |-> ""]
        ELSE LET remaining == expiration_date - t
                 age == FormatAge(t + remaining, t)
             IN  [text |-> "remaining", n |-> age.n, unit |-> age.unit]

(* ArchivedFile::get_retention_remaining *)
GetRetentionRemaining(file, t) ==
    LET expiration_date == file.archive_date + file.retention_period * TicksPerSec
    IN  IF t >= expiration_date THEN NoNumber
        ELSE Some(TruncDiv(expiration_date - t, DayTicks))

(* ArchivedFile::to_display_info.  An Option is <<>> when absent and <<x>>   *)
(* when it holds x.                                                         *)
ToDisplayInfo(file, ui_type, t) ==
    LET truncate_lengths == GetTruncateLengths(ui_type)
        metadata == FromStr(file.metadata)
        size     == IF metadata = <<>> THEN NoNumber ELSE AsU64(metadata[1], "size")
        created  == IF metadata = <<>> THEN NoNumber ELSE AsU64(metadata[1], "created")
        modified == IF metadata = <<>> THEN NoNumber ELSE AsU64(metadata[1], "modified")
        name     == Truncate(file.name, truncate_lengths.name)
        path     == Truncate(file.original_path, truncate_lengths.path)
    IN  [panic    |-> name.panic \/ path.panic,
         id       |-> file.id,
         name     |-> name.text,
         path     |-> path.text,
         format   |-> file.format,
         age      |-> FormatAge(file.archive_date, t),
         status   |-> GetStatusString(file, t),
         reason   |-> IF file.reason = <<>> THEN <<>> ELSE <<file.reason>>,
         size     |-> IF size = NoNumber THEN <<>> ELSE <<FormatSize(size[1])>>,
         created  |-> IF created = NoNumber THEN <<>> ELSE <<FormatTimestamp(created[1])>>,
         modified |-> IF modified = NoNumber THEN <<>> ELSE <<FormatTimestamp(modified[1])>>,
         retention_remaining |-> GetRetentionRemaining(file, t),
         metadata |-> metadata]

(* a text of n bytes: a prefix, filled up with the byte fill *)
Padded(prefix, fill, n) == prefix \o [i \in 1..(n - Len(prefix)) |-> fill]

(* The rows the projection is shown on: names of 20, 21 and 31 bytes and    *)
(* paths of 30, 31 and 41 bytes, at and past the lengths of                 *)
(* get_truncate_lengths; NameAccent has a two-byte character in its bytes   *)
(* 17 and 18.                                                               *)
NameAccent == Padded(<<"n">>, "d", 16) \o <<"C3", "A9", ".", "j", "s">>

DisplayRows ==
    {NewRow(1, Padded(<<"n">>, "a", 20), Padded(<<"/">>, "a", 30), <<1, 2>>,
            <<"u","n","k","n","o","w","n">>, 1, ReasonOld, Metadata(<<1, 2>>, 0, 0), 0),
     NewRow(2, Padded(<<"n">>, "b", 21), Padded(<<"/">>, "b", 31), <<>>,
            <<"u","n","k","n","o","w","n">>, 2, <<>>, MetadataEmpty, 1),
     NewRow(3, Padded(<<"n">>, "c", 31), Padded(<<"/">>, "c", 41), <<3>>,
            <<"u","n","k","n","o","w","n">>, 0, ReasonDefault,
            [size |-> 1, created |-> -1], 0),
     NewRow(4, NameAccent, Padded(<<"/">>, "a", 30), <<>>,
            <<"u","n","k","n","o","w","n">>, 1, ReasonDefault, MetadataNotJson, 1),
     NewRow(5, NameDb, PathDb, <<1, 2>>, FormatOf(PathDb), 1, ReasonOld,
            Metadata(<<1, 2>>, 0, 0), TicksPerSec)}

InitDisplay ==
    /\ db = DisplayRows
    /\ fs = [p \in FsPaths |-> NoFile]
    /\ now = 1
    /\ result = Idle
    /\ cleanups = <<>>
    /\ issued = NextRowid(db) - 1
    /\ configs = {}
    /\ screen = NewScreen

(* to_display_info on a record of the store, for one user interface *)
Display(id, ui_type) ==
    /\ \E r \in RowsById(db, id) :
          LET info == ToDisplayInfo(ArchivedFile(r), ui_type, now)
          IN  result' = IF info.panic
                        THEN Res("to_display_info", [id |-> id, ui_type |-> ui_type],
                                 "Panic", <<>>)
                        ELSE Res("to_display_info", [id |-> id, ui_type |-> ui_type],
                                 "Ok", <<info>>)
    /\ UNCHANGED <<screen, configs, db, fs, now, issued>> /\ cleanups' = <<>>

NextDisplay ==
    \/ Advance
    \/ \E id \in {r.id : r \in DisplayRows}, ui_type \in UiTypes : Display(id, ui_type)

SpecDisplay == InitDisplay /\ [][NextDisplay]_vars

(* the record shown by the to_display_info that has just returned *)
Shown == result.value[1]

(* the record of the store that was projected *)
Projected == ArchivedFile(CHOOSE r \in db : r.id = result.arg.id)

(* the longest name and path a user interface shows, if it has a limit *)
MaxShown(ui_type) ==
    IF ui_type = "CliDetailed" THEN [name |-> 30, path |-> 40]
    ELSE IF ui_type = "Tui" THEN [name |-> 20, path |-> 30]
    ELSE [name |-> 0, path |-> 0]

Truncates(ui_type) == ui_type \in {"CliDetailed", "Tui"}

(* C21: a shown name or path is never longer than the user interface's      *)
(* maximum (30 and 40 bytes in the detailed command-line listing, 20 and 30 *)
(* in the terminal UI); a field that is longer is cut and ends in the       *)
(* marker "...", one that is not longer is shown unchanged, and the terse   *)
(* command-line listing and the GUI show every field unchanged.             *)
C21_Truncation ==
    (result.op = "to_display_info" /\ result.status = "Ok") =>
        LET ui   == result.arg.ui_type
            file == Projected
            Field(shown, stored, max) ==
                IF Truncates(ui) /\ Len(stored) > max
                THEN /\ Len(shown) <= max
                     /\ SubSeq(shown, Len(shown) - 2, Len(shown)) = <<".", ".", ".">>
                ELSE shown = stored
        IN  /\ Field(Shown.name, file.name, MaxShown(ui).name)
            /\ Field(Shown.path, file.original_path, MaxShown(ui).path)

(* What holds of truncation: an untruncated field is unchanged, and a cut   *)
(* field is one byte longer than the maximum.                               *)
TruncationOneOver ==
    (result.op = "to_display_info" /\ result.status = "Ok") =>
        LET ui   == result.arg.ui_type
            file == Projected
            Field(shown, stored, max) ==
                IF Truncates(ui) /\ Len(stored) > max
                THEN /\ Len(shown) = max + 1
                     /\ SubSeq(shown, Len(shown) - 2, Len(shown)) = <<".", ".", ".">>
                ELSE shown = stored
        IN  /\ Field(Shown.name, file.name, MaxShown(ui).name)
            /\ Field(Shown.path, file.original_path, MaxShown(ui).path)

(* the remaining time of the claims: the coarsest unit that is not zero *)
FormattedRemaining(remaining) ==
    IF remaining >= DayTicks
    THEN [n |-> remaining \div DayTicks, unit |-> "days"]
    ELSE IF remaining >= 3600 * TicksPerSec
    THEN [n |-> remaining \div (3600 * TicksPerSec), unit |-> "hours"]
    ELSE [n |-> remaining \div (60 * TicksPerSec), unit |-> "minutes"]

(* C22: the status shown is "Expired" exactly when now is at or past        *)
(* archive_date + retention_period; before that it is the remaining time in *)
(* the coarsest unit (days from one day on, else hours from one hour on,    *)
(* else minutes), never negative, followed by "remaining".                  *)
C22_Status ==
    (result.op = "to_display_info" /\ result.status = "Ok") =>
        LET file    == Projected
            expires == file.archive_date + file.retention_period * TicksPerSec
        IN  /\ (Shown.status.text = "Expired") <=> (now >= expires)
            /\ now < expires =>
                   /\ Shown.status.text = "remaining"
                   /\ Shown.status.n >= 0
                   /\ Shown.status.n = FormattedRemaining(expires - now).n
                   /\ Shown.status.unit = FormattedRemaining(expires - now).unit

(* What holds of the status: "Expired" exactly from the expiry on, and      *)
(* before it a number of minutes that is never above zero.                  *)
StatusExpiredExact ==
    (result.op = "to_display_info" /\ result.status = "Ok") =>
        LET file    == Projected
            expires == file.archive_date + file.retention_period * TicksPerSec
        IN  /\ (Shown.status.text = "Expired") <=> (now >= expires)
            /\ now < expires =>
                   /\ Shown.status.unit = "minutes"
                   /\ Shown.status.n = -((expires - now) \div (60 * TicksPerSec))

(* a metadata text that is no JSON, or a JSON object without the member, or *)
(* with one that is no unsigned number                                      *)
Lacks(text, key) ==
    \/ "garbage" \in DOMAIN text
    \/ key \notin DOMAIN text
    \/ text[key] < 0

(* the optional fields of a shown record are absent where the stored record *)
(* has nothing to show for them                                             *)
Degrades(shown, file) ==
    /\ Lacks(file.metadata, "size") => shown.size = <<>>
    /\ Lacks(file.metadata, "created") => shown.created = <<>>
    /\ Lacks(file.metadata, "modified") => shown.modified = <<>>
    /\ file.reason = <<>> => shown.reason = <<>>

(* C23: to_display_info never fails: for a record whose metadata is empty,  *)
(* is no JSON, or lacks size, created or modified, in every user interface  *)
(* it returns a record in which those fields are absent, with no panic; an  *)
(* empty reason is shown as an absent reason.                               *)
C23_NoFailure ==
    result.op = "to_display_info" =>
        /\ result.status = "Ok"
        /\ Degrades(Shown, Projected)

(* What holds of the projection: whenever it returns, the fields the        *)
(* record has nothing for are absent.                                       *)
DegradesWhenShown ==
    (result.op = "to_display_info" /\ result.status = "Ok") =>
        Degrades(Shown, Projected)

(* a projection has returned for a record with unusable metadata *)
ShownDegraded ==
    /\ result.op = "to_display_info" /\ result.status = "Ok"
    /\ "garbage" \in DOMAIN Projected.metadata
    /\ Projected.reason = <<>>

----------------------------------------------------------------------------
(* the instant at which now - archive_timestamp is exactly retention_seconds *)
AtBoundary(r, t) == t = ExpiresAt(r)

(* C24: at the very instant now - archive_timestamp = retention_seconds,    *)
(* can_delete answers true and delete succeeds, cleanup does not remove the *)
(* record, and get_statistics does not count it as expired; at every        *)
(* instant expired_count is the number of records a cleanup at that         *)
(* instant would remove.                                                    *)
C24_Boundary ==
    [][/\ \A id \in Ids : \A r \in RowsById(db, id) :
              (AtBoundary(r, now) /\ now' = now) =>
                  /\ (result'.op = "can_delete" /\ result'.arg = id) =>
                         (result'.status = "Ok" /\ result'.value = TRUE)
                  /\ (result'.op = "delete" /\ result'.arg = id) =>
                         (result'.status = "Ok" /\ r \notin db')
                  /\ result'.op = "cleanup" => r \in db'
                  /\ result'.op = "get_statistics" =>
                         /\ result'.status = "Ok"
                         /\ result'.value.expired_count
                                <= Cardinality({q \in db : ~AtBoundary(q, now)})
       /\ result'.op = "get_statistics" =>
              /\ result'.status = "Ok"
              /\ result'.value.expired_count
                     = Cardinality({q \in db : PastRetentionWholeSeconds(q, now)})
       /\ (result'.op = "cleanup" /\ now' = now) =>
              result'.value = Cardinality({q \in db : PastRetentionWholeSeconds(q, now)})
      ]_vars

(* The boundary without get_statistics: can_delete and delete take the      *)
(* record at that instant and cleanup leaves it.                            *)
BoundaryDeleteCleanup ==
    [][\A id \in Ids : \A r \in RowsById(db, id) :
          (AtBoundary(r, now) /\ now' = now) =>
              /\ (result'.op = "can_delete" /\ result'.arg = id) =>
                     (result'.status = "Ok" /\ result'.value = TRUE)
              /\ (result'.op = "delete" /\ result'.arg = id) =>
                     (result'.status = "Ok" /\ r \notin db')
              /\ result'.op = "cleanup" => r \in db'
      ]_vars

(* a cleanup has just left a record alone at the very instant its retention *)
(* ran out                                                                  *)
BoundaryKept ==
    /\ result.op = "cleanup"
    /\ result.status = "Ok"
    /\ \E r \in db : AtBoundary(r, now) /\ r.retention_period > 0

(* C25: get_retention_info on a record of the store returns its stored      *)
(* archive_timestamp and retention, time_remaining = expiry - now while now *)
(* is before the expiry and none from the expiry on, and can_delete exactly *)
(* when time_remaining is none; its can_delete is the answer of             *)
(* can_delete(id) at the same instant.                                      *)
C25_RetentionInfo ==
    \A id \in Ids : \A r \in RowsById(db, id) :
        (result.op = "get_retention_info" /\ result.arg = id) =>
            /\ result.status = "Ok"
            /\ result.value.archive_date = ParseFromRfc3339(r.archive_date)
            /\ result.value.retention_period = r.retention_period * TicksPerSec
            /\ result.value.time_remaining =
                   IF now < ExpiresAt(r) THEN Some(ExpiresAt(r) - now) ELSE NoNumber
            /\ result.value.can_delete = (result.value.time_remaining = NoNumber)
            /\ CanDeleteDb(db, id, now).status = "Ok"
            /\ result.value.can_delete = CanDeleteDb(db, id, now).value

(* get_retention_info has just reported, at the very instant the retention  *)
(* of a record ran out, that no time remains and the record can be deleted  *)
C25_Witness ==
    /\ result.op = "get_retention_info"
    /\ result.status = "Ok"
    /\ \E r \in RowsById(db, result.arg) :
           /\ r.retention_period > 0
           /\ AtBoundary(r, now)
           /\ result.value.time_remaining = NoNumber
           /\ result.value.can_delete = TRUE

(* C26: eligibility is worked out anew from the stored retention at every   *)
(* call.  Right after update_retention(id, d) on a record of the store,     *)
(* can_delete(id) answers true exactly when now - archive_timestamp >=      *)
(* d * 86400: a record whose retention had run out and is extended is       *)
(* refused by delete with RetentionActive again and is left alone by        *)
(* cleanup, and update_retention(id, 0) makes the record eligible at once.  *)
C26_Reevaluated ==
    [][\A id \in Ids : \A r \in RowsById(db, id) :
          (/\ result.op = "update_retention" /\ result.status = "Ok"
           /\ result.arg.id = id /\ now' = now) =>
              LET eligible == now - ParseFromRfc3339(r.archive_date)
                                  >= result.arg.days * DayTicks
              IN  /\ (result'.op = "can_delete" /\ result'.arg = id) =>
                         /\ result'.status = "Ok"
                         /\ result'.value = eligible
                         /\ result.arg.days = 0 => result'.value = TRUE
                  /\ (result'.op = "delete" /\ result'.arg = id) =>
                         IF eligible
                         THEN result'.status = "Ok" /\ r \notin db'
                         ELSE result'.status = "RetentionActive" /\ db' = db
                  /\ (result'.op = "cleanup" /\ ~eligible) => r \in db'
      ]_vars

(* delete has just been refused with RetentionActive for a record that was  *)
(* archived with a retention of no time at all and was given one day since  *)
C26_Witness ==
    /\ result.op = "delete"
    /\ result.status = "RetentionActive"
    /\ \E r \in RowsById(db, result.arg) :
           /\ r.retention_period = SecondsPerDay
           /\ \E q \in ExistingRows : q.id = r.id /\ q.retention_period = 0

(* C27: cleanup never removes a record for which can_delete answers false   *)
(* at that instant (the comparison on whole seconds implies the comparison  *)
(* on the instants themselves), so no record is destroyed, by delete or by  *)
(* cleanup, before archive_timestamp + retention_seconds.                   *)
C27_NeverEarly ==
    [][\A r \in db :
          RowsById(db', r.id) = {} =>
              /\ result'.op \in {"delete", "cleanup"}
              /\ now >= ParseFromRfc3339(r.archive_date)
                            + r.retention_period * TicksPerSec
              /\ result'.op = "cleanup" =>
                     /\ CanDeleteDb(db, r.id, now).status = "Ok"
                     /\ CanDeleteDb(db, r.id, now).value = TRUE
      ]_vars

(* a cleanup has just removed records and left one whose retention has not  *)
(* run out by less than a second                                            *)
C27_Witness ==
    /\ result.op = "cleanup"
    /\ result.status = "Ok"
    /\ result.value >= 1
    /\ \E r \in db : /\ ~DeleteEligible(r, now)
                     /\ ExpiresAt(r) - now < TicksPerSec

(* C28: get_statistics on a store with no records succeeds, with            *)
(* total_archives, expired_count, active_count and total_size all 0.        *)
C28_EmptyStatistics ==
    (result.op = "get_statistics" /\ db = {}) =>
        /\ result.status = "Ok"
        /\ result.value.total_archives = 0
        /\ result.value.expired_count = 0
        /\ result.value.active_count = 0
        /\ result.value.total_size = 0

----------------------------------------------------------------------------
(* paramguard-cli/src/tui/screens/archive_screen.rs: the archive screen of  *)
(* the terminal UI.  A key is handled by handle_input; an Err it returns    *)
(* goes to the caller and the screen stays as the handler left it; a panic  *)
(* ends the program.                                                        *)

MaxFilter == 1    \* the filter is edited up to MaxFilter characters
MaxSelected == 3  \* the selection is followed up to index MaxSelected

(* the characters typed into the filter *)
FilterChars == {"o", "b"}

RECURSIVE FiltersUpTo(_)
FiltersUpTo(n) ==
    IF n = 0 THEN {<<>>}
    ELSE FiltersUpTo(n - 1)
         \cup {Append(f, c) : f \in {g \in FiltersUpTo(n - 1) : Len(g) = n - 1},
                              c \in FilterChars}

(* The LIKE results of the texts and the filters, computed once. *)
FilterLikeOf ==
    [q \in FiltersUpTo(MaxFilter) \ {<<>>} |-> [t \in Texts |-> Like(t, SearchPattern(q))]]

(* ArchiveDb::search_archives on the filter of the screen *)
SearchFilter(rows, filter) ==
    {r \in rows : \/ FilterLikeOf[filter][r.name]
                  \/ FilterLikeOf[filter][r.original_path]
                  \/ FilterLikeOf[filter][r.reason]}

(* ArchiveScreen::refresh_archives: every list it may load (rows of one      *)
(* archive_date come in any order), or the error of list or search          *)
RefreshArchives(rows, scr) ==
    IF scr.filter = <<>>
    THEN IF ~Prepares(ListColumns)
         THEN {[status |-> "DbError", screen |-> scr]}
         ELSE {[status |-> "Ok", screen |-> [scr EXCEPT !.archives = Files(s)]] :
                   s \in OrderByArchiveDateDesc(rows)}
    ELSE IF ~Prepares(SearchColumns)
         THEN {[status |-> "DbError", screen |-> scr]}
         ELSE {[status |-> "Ok", screen |-> [scr EXCEPT !.archives = Files(s)]] :
                   s \in OrderByArchiveDateDesc(SearchFilter(rows, scr.filter))}

(* Vec::get(idx) of the selected index: the archive it names, if any *)
SelectedArchive(scr) ==
    IF scr.selected_index # NoNumber /\ scr.selected_index[1] < Len(scr.archives)
    THEN <<scr.archives[scr.selected_index[1] + 1]>>
    ELSE <<>>

(* what handle_input gave back for a key *)
Key(key, status) == Res("key", key, status, None)

(* KeyCode::Char('r') with CONTROL *)
KeyCtrlR ==
    /\ ~screen.panicked
    /\ \E got \in RefreshArchives(db, screen) :
           /\ screen' = got.screen
           /\ result' = Key("Ctrl-R", got.status)
    /\ UNCHANGED <<configs, db, fs, now, issued>> /\ cleanups' = <<>>

(* ArchiveService::restore(id, None), as the Enter key calls it *)
RestoreToOriginal(rows, files, id) ==
    LET got == RestoreFile(rows, id)
    IN  IF got.status = "NoRows" THEN [status |-> "NotFound", files |-> files]
        ELSE IF got.status = "DbError" THEN [status |-> "DbError", files |-> files]
        ELSE LET restore_path == RestorePath(files, got.file, None)
                 made == CreateDirAll(files, Parent(restore_path))
             IN  IF ~made.ok THEN [status |-> "IoError", files |-> files]
                 ELSE IF made.files[restore_path] = IsDir
                 THEN [status |-> "IoError", files |-> made.files]
                 ELSE [status |-> "Ok",
                       files  |-> [made.files EXCEPT ![restore_path] = got.content]]

(* KeyCode::Enter: restore_archive of the selected archive *)
KeyEnter ==
    /\ ~screen.panicked
    /\ LET sel == SelectedArchive(screen)
       IN  IF sel = <<>>
           THEN /\ result' = Key("Enter", "Ok")
                /\ UNCHANGED <<fs, screen>>
           ELSE LET done == RestoreToOriginal(db, fs, sel[1].id)
                IN  /\ fs' = done.files
                    /\ result' = Key("Enter", done.status)
                    /\ screen' = IF done.status = "Ok"
                                 THEN [screen EXCEPT !.message = <<"Restored", sel[1].id>>]
                                 ELSE screen
    /\ UNCHANGED <<configs, db, now, issued>> /\ cleanups' = <<>>

(* ArchiveService::delete *)
ServiceDelete(rows, id, t) ==
    LET can == CanDeleteDb(rows, id, t)
    IN  IF can.status # "Ok" THEN [status |-> "DbError", rows |-> rows]
        ELSE IF can.value THEN DeleteArchive(rows, id, t)
        ELSE [status |-> "RetentionActive", rows |-> rows]

(* KeyCode::Delete: try_delete_archive of the selected archive *)
KeyDelete ==
    /\ ~screen.panicked
    /\ LET sel == SelectedArchive(screen)
       IN  IF sel = <<>>
           THEN /\ result' = Key("Delete", "Ok")
                /\ UNCHANGED <<db, screen>>
           ELSE LET id  == sel[1].id
                    can == CanDeleteDb(db, id, now)
                IN  IF can.status # "Ok"
                    THEN /\ result' = Key("Delete", "DbError")
                         /\ UNCHANGED <<db, screen>>
                    ELSE IF ~can.value
                    THEN /\ result' = Key("Delete", "Ok")
                         /\ screen' = [screen EXCEPT !.message = <<"Cannot delete", id>>]
                         /\ UNCHANGED db
                    ELSE LET del == ServiceDelete(db, id, now)
                         IN  /\ db' = del.rows
                             /\ IF del.status # "Ok"
                                THEN /\ result' = Key("Delete", del.status)
                                     /\ UNCHANGED screen
                                ELSE \E got \in RefreshArchives(del.rows,
                                         [screen EXCEPT !.message = <<"Deleted", id>>]) :
                                         /\ screen' = got.screen
                                         /\ result' = Key("Delete", got.status)
    /\ UNCHANGED <<configs, fs, now, issued>> /\ cleanups' = <<>>

(* KeyCode::Up: move_selection *)
KeyUp ==
    /\ ~screen.panicked
    /\ screen' =
           IF screen.selected_index # NoNumber
           THEN IF screen.selected_index[1] > 0
                THEN [screen EXCEPT !.selected_index = Some(screen.selected_index[1] - 1)]
                ELSE screen
           ELSE IF screen.archives # <<>>
                THEN [screen EXCEPT !.selected_index = Some(0)]
                ELSE screen
    /\ result' = Key("Up", "Ok")
    /\ UNCHANGED <<configs, db, fs, now, issued>> /\ cleanups' = <<>>

(* KeyCode::Down: move_selection.  archives.len() - 1 on an empty list is   *)
(* 0 - 1 in usize: a panic in a build with overflow checks, the largest     *)
(* usize in one without.                                                    *)
KeyDown ==
    /\ ~screen.panicked
    /\ IF screen.selected_index # NoNumber
       THEN IF screen.archives = <<>>
            THEN \/ /\ screen' = [screen EXCEPT !.panicked = TRUE]
                    /\ result' = Key("Down", "Panic")
                 \/ /\ screen.selected_index[1] < MaxSelected
                    /\ screen' = [screen EXCEPT
                                     !.selected_index = Some(screen.selected_index[1] + 1)]
                    /\ result' = Key("Down", "Ok")
            ELSE /\ screen' =
                        IF screen.selected_index[1] < Len(screen.archives) - 1
                        THEN [screen EXCEPT
                                 !.selected_index = Some(screen.selected_index[1] + 1)]
                        ELSE screen
                 /\ result' = Key("Down", "Ok")
       ELSE /\ screen' = IF screen.archives # <<>>
                         THEN [screen EXCEPT !.selected_index = Some(0)]
                         ELSE screen
            /\ result' = Key("Down", "Ok")
    /\ UNCHANGED <<configs, db, fs, now, issued>> /\ cleanups' = <<>>

(* KeyCode::Char(c): update_filter *)
KeyChar(c) ==
    /\ ~screen.panicked
    /\ Len(screen.filter) < MaxFilter
    /\ screen' = [screen EXCEPT !.filter = Append(@, c)]
    /\ result' = Key(c, "Ok")
    /\ UNCHANGED <<configs, db, fs, now, issued>> /\ cleanups' = <<>>

(* KeyCode::Backspace: backspace_filter (String::pop) *)
KeyBackspace ==
    /\ ~screen.panicked
    /\ screen' = [screen EXCEPT !.filter = IF @ = <<>> THEN <<>>
                                            ELSE SubSeq(@, 1, Len(@) - 1)]
    /\ result' = Key("Backspace", "Ok")
    /\ UNCHANGED <<configs, db, fs, now, issued>> /\ cleanups' = <<>>

InitTui ==
    /\ db = ExistingRows
    /\ fs = [p \in FsPaths |->
                IF p = PathDb THEN <<9>>
                ELSE IF p = DirEtc THEN IsDir
                ELSE NoFile]
    /\ now = 1
    /\ result = Idle
    /\ cleanups = <<>>
    /\ issued = NextRowid(db) - 1
    /\ configs = {}
    /\ screen = NewScreen

NextTui ==
    \/ Advance
    \/ KeyCtrlR
    \/ KeyEnter
    \/ KeyDelete
    \/ KeyUp
    \/ KeyDown
    \/ \E c \in FilterChars : KeyChar(c)
    \/ KeyBackspace

SpecTui == InitTui /\ [][NextTui]_vars

(* C29: after any keys (Up, Down, Delete, Enter, Ctrl-R, edits of the       *)
(* filter) selected_index is None or an index of the archives listed, and   *)
(* no key makes the screen panic, Up and Down after a delete or a refresh   *)
(* that shortened the list included.                                        *)
C29_SelectionInBounds ==
    /\ ~screen.panicked
    /\ (screen.selected_index = NoNumber
            \/ screen.selected_index[1] < Len(screen.archives))

----------------------------------------------------------------------------
(* the default content of a format, as the claims have it: {} for JSON, the *)
(* empty document for TOML                                                  *)
DefaultOf(format) == IF format = "Json" THEN <<123, 125>> ELSE <<>>

(* the content create_config_file is to keep for an initial content *)
ContentFor(format, init_content) ==
    IF init_content = NoContent \/ init_content[1] = <<>>
    THEN DefaultOf(format)
    ELSE init_content[1]

CreateRefused ==
    /\ result.op = "create_config_file"
    /\ result.status = "ParseError"
    /\ result.arg.format = "Json"
    /\ result.arg.init_content = SomeContent(ContentBad)
    /\ ~IsManaged(configs, result.arg.name)
    /\ fs[result.arg.path] = NoFile


====
